---- MODULE Spec2Model ----
(***************************************************************************)
(* A model of src/aisuite/providers/google_rest_provider.py: the message   *)
(* converter GoogleRestMessageConverter (convert_request, convert_response)*)
(* and GoogleRestProvider.chat_completions_create, which drives it.        *)
(*                                                                         *)
(* Representation of Python values.                                        *)
(*   str            a sequence of one-character strings, <<"H", "i">>      *)
(*   dict           a function whose domain is a set of key names          *)
(*   list           a sequence                                             *)
(*   a value whose type varies (message content, parsed JSON) is tagged:   *)
(*     <<"str", chars>>  <<"int", n>>  <<"bool", b>>  <<"null">> (None)    *)
(*     <<"obj", pairs>>  a JSON object, pairs a sequence of <<key, value>> *)
(*                       in insertion order                                *)
(***************************************************************************)
EXTENDS Integers, Sequences, FiniteSets, TLC

(***************************************************************************)
(* Bounds of the model.                                                    *)
(***************************************************************************)
MaxMsgs == 3
MaxParts == 2
MaxCands == 2
MaxChatMsgs == 1
NumCallers == 2
MaxSeed == 1

Callers == 1..NumCallers

(***************************************************************************)
(* Tagged values.                                                          *)
(***************************************************************************)
JStr(s) == <<"str", s>>
JInt(n) == <<"int", n>>
JBool(b) == <<"bool", b>>
JNull == <<"null">>
JObj(pairs) == <<"obj", pairs>>

IsStr(v) == v[1] = "str"

\* Python truthiness of a tagged value (None, "", 0, False and {} are falsy).
Truthy(v) ==
  CASE v[1] = "str" -> v[2] # <<>>
    [] v[1] = "int" -> v[2] # 0
    [] v[1] = "bool" -> v[2]
    [] v[1] = "obj" -> v[2] # <<>>
    [] OTHER -> FALSE

(***************************************************************************)
(* json.loads on the JSON subset the model's strings are written in:       *)
(* objects, strings without escapes, non-negative integers, true, false,   *)
(* null, with spaces between tokens.  The result is [ok, val, pos]; ok is  *)
(* FALSE where Python raises json.JSONDecodeError.                         *)
(***************************************************************************)
DigitChars == <<"0", "1", "2", "3", "4", "5", "6", "7", "8", "9">>

IsDigit(ch) == \E d \in 1..10 : DigitChars[d] = ch

DigitVal(ch) == (CHOOSE d \in 1..10 : DigitChars[d] = ch) - 1

JFail == [ok |-> FALSE, val |-> JNull, pos |-> 0]

JOk(v, p) == [ok |-> TRUE, val |-> v, pos |-> p]

RECURSIVE SkipWs(_, _)
SkipWs(s, p) == IF p <= Len(s) /\ s[p] = " " THEN SkipWs(s, p + 1) ELSE p

\* s[p .. p + Len(w) - 1] = w
HasWord(s, p, w) ==
  /\ p + Len(w) - 1 <= Len(s)
  /\ \A k \in 1..Len(w) : s[p + k - 1] = w[k]

\* The position of the closing quote of the string that opens at p - 1, or 0.
RECURSIVE StringEnd(_, _)
StringEnd(s, p) ==
  IF p > Len(s) THEN 0
  ELSE IF s[p] = "\"" THEN p
  ELSE StringEnd(s, p + 1)

\* A JSON string at p (s[p] is the opening quote).
ParseString(s, p) ==
  LET e == StringEnd(s, p + 1)
  IN IF e = 0 THEN JFail ELSE JOk(JStr(SubSeq(s, p + 1, e - 1)), e + 1)

RECURSIVE NumberEnd(_, _)
NumberEnd(s, p) ==
  IF p <= Len(s) /\ IsDigit(s[p]) THEN NumberEnd(s, p + 1) ELSE p

RECURSIVE DigitsVal(_, _)
DigitsVal(s, acc) ==
  IF s = <<>> THEN acc ELSE DigitsVal(Tail(s), 10 * acc + DigitVal(Head(s)))

\* A JSON integer at p: "0", or a digit 1-9 followed by digits.
ParseNumber(s, p) ==
  IF s[p] = "0" THEN JOk(JInt(0), p + 1)
  ELSE LET e == NumberEnd(s, p)
       IN JOk(JInt(DigitsVal(SubSeq(s, p, e - 1), 0)), e)

\* dict[key] = val: a key already present keeps its place and takes the value.
PutPair(pairs, key, val) ==
  IF \E k \in 1..Len(pairs) : pairs[k][1] = key
  THEN [k \in 1..Len(pairs) |->
          IF pairs[k][1] = key THEN <<key, val>> ELSE pairs[k]]
  ELSE Append(pairs, <<key, val>>)

RECURSIVE ParseValue(_, _)
RECURSIVE ParseMembers(_, _, _)

\* The members of an object from p (just after "{" or ","), collected in acc.
ParseMembers(s, p, acc) ==
  LET q == SkipWs(s, p)
  IN IF q > Len(s) \/ s[q] # "\"" THEN JFail
     ELSE LET key == ParseString(s, q)
          IN IF ~key.ok THEN JFail
             ELSE LET c == SkipWs(s, key.pos)
                  IN IF c > Len(s) \/ s[c] # ":" THEN JFail
                     ELSE LET v == ParseValue(s, SkipWs(s, c + 1))
                          IN IF ~v.ok THEN JFail
                             ELSE LET r == SkipWs(s, v.pos)
                                      got == PutPair(acc, key.val[2], v.val)
                                  IN IF r > Len(s) THEN JFail
                                     ELSE IF s[r] = "}" THEN JOk(JObj(got), r + 1)
                                     ELSE IF s[r] = "," THEN ParseMembers(s, r + 1, got)
                                     ELSE JFail

ParseValue(s, p) ==
  IF p > Len(s) THEN JFail
  ELSE IF s[p] = "{" THEN
    LET q == SkipWs(s, p + 1)
    IN IF q <= Len(s) /\ s[q] = "}" THEN JOk(JObj(<<>>), q + 1)
       ELSE ParseMembers(s, p + 1, <<>>)
  ELSE IF s[p] = "\"" THEN ParseString(s, p)
  ELSE IF IsDigit(s[p]) THEN ParseNumber(s, p)
  ELSE IF HasWord(s, p, <<"n", "u", "l", "l">>) THEN JOk(JNull, p + 4)
  ELSE IF HasWord(s, p, <<"t", "r", "u", "e">>) THEN JOk(JBool(TRUE), p + 4)
  ELSE IF HasWord(s, p, <<"f", "a", "l", "s", "e">>) THEN JOk(JBool(FALSE), p + 5)
  ELSE JFail

\* json.loads(s): one value, then nothing but spaces ("Extra data" otherwise).
JsonLoads(s) ==
  LET v == ParseValue(s, SkipWs(s, 1))
  IN IF v.ok /\ SkipWs(s, v.pos) = Len(s) + 1 THEN v ELSE JFail

(***************************************************************************)
(* json.dumps with the default separators ", " and ": ".                   *)
(***************************************************************************)
RECURSIVE IntChars(_)
IntChars(n) ==
  IF n < 10 THEN <<DigitChars[n + 1]>>
  ELSE IntChars(n \div 10) \o <<DigitChars[(n % 10) + 1]>>

Quoted(s) == <<"\"">> \o s \o <<"\"">>

RECURSIVE JsonDumps(_)
RECURSIVE DumpPairs(_)

DumpPairs(pairs) ==
  IF pairs = <<>> THEN <<>>
  ELSE Quoted(Head(pairs)[1]) \o <<":", " ">> \o JsonDumps(Head(pairs)[2])
       \o (IF Len(pairs) > 1 THEN <<",", " ">> ELSE <<>>)
       \o DumpPairs(Tail(pairs))

JsonDumps(v) ==
  CASE v[1] = "str" -> Quoted(v[2])
    [] v[1] = "int" -> IntChars(v[2])
    [] v[1] = "bool" -> IF v[2] THEN <<"t", "r", "u", "e">>
                        ELSE <<"f", "a", "l", "s", "e">>
    [] v[1] = "obj" -> <<"{">> \o DumpPairs(v[2]) \o <<"}">>
    [] OTHER -> <<"n", "u", "l", "l">>

(***************************************************************************)
(* The strings the inputs are written with.                                *)
(***************************************************************************)
sEmpty == <<>>
sA == <<"A">>
sB == <<"B">>
nameF == <<"f">>
nameG == <<"g">>
\* {}
argsNone == <<"{", "}">>
\* {"a": 1}
argsA1 == <<"{", "\"", "a", "\"", ":", " ", "1", "}">>
\* {"a"   (cut short: not JSON)
argsBad == <<"{", "\"", "a", "\"">>
\* sunny  (plain words: not JSON)
textPlain == <<"s", "u", "n", "n", "y">>
\* "A"    (a JSON string)
textQuoted == <<"\"", "A", "\"">>

(***************************************************************************)
(* Canonical messages (dicts).                                             *)
(***************************************************************************)
SystemMsg(t) == [role |-> "system", content |-> t]
UserMsg(t) == [role |-> "user", content |-> t]
AssistantMsg(t) == [role |-> "assistant", content |-> t]
ToolCall(name, arguments) ==
  [id |-> <<"i", "d">>, type |-> "function",
   function |-> [name |-> name, arguments |-> arguments]]
AssistantCalls(calls) ==
  [role |-> "assistant", content |-> JNull, tool_calls |-> calls]
ToolMsg(name, t) == [role |-> "tool", name |-> name, content |-> t]

SystemMessages == {SystemMsg(JStr(sA)), SystemMsg(JStr(sB)),
                   SystemMsg(JStr(sEmpty)), SystemMsg(JNull)}

UserMessages == {UserMsg(JStr(sA)), [role |-> "user"]}

AssistantTextMessages ==
  {AssistantMsg(JStr(sB)),
   [role |-> "assistant", content |-> JStr(sEmpty), tool_calls |-> <<>>]}

AssistantCallMessages ==
  {AssistantCalls(<<ToolCall(nameF, argsA1), ToolCall(nameG, argsNone)>>),
   AssistantCalls(<<ToolCall(nameG, argsA1), ToolCall(nameF, argsBad)>>)}

ToolMessages == {ToolMsg(nameF, JStr(argsA1)), ToolMsg(nameG, JStr(textQuoted)),
                 ToolMsg(nameF, JStr(textPlain)), ToolMsg(nameF, JNull)}

Messages == SystemMessages \cup UserMessages \cup AssistantTextMessages
            \cup AssistantCallMessages \cup ToolMessages

\* The sequences over S of length at most n.
SeqsUpTo(S, n) == UNION {[1..k -> S] : k \in 0..n}

MessageLists == SeqsUpTo(Messages, MaxMsgs)

(***************************************************************************)
(* Exceptions and results.                                                 *)
(***************************************************************************)
NoCause == [type |-> "none", arg |-> "none"]
Exc(type, msg, cause) == [type |-> type, msg |-> msg, cause |-> cause]
NoExc == Exc("none", "none", NoCause)
KeyError(key) == Exc("KeyError", key, NoCause)
IndexError == Exc("IndexError", "list index out of range", NoCause)
JSONDecodeError == Exc("JSONDecodeError", "Expecting value", NoCause)
\* raise ValueError(f"...: {e}") inside "except ... as e": the message embeds
\* str(e) and the exception context is e.
ValueErrorFromNothing(msg, e) == Exc("ValueError", msg, NoCause)
ValueErrorFrom(msg, e) == Exc("ValueError", msg, [type |-> e.type, arg |-> e.msg])

NoValue == [novalue |-> TRUE]

(***************************************************************************)
(* convert_request, one message at a time.                                 *)
(***************************************************************************)
\* message.get("content", "")
MsgContent(m) == IF "content" \in DOMAIN m THEN m.content ELSE JStr(sEmpty)

\* "tool_calls" in message and message["tool_calls"]
HasToolCalls(m) == "tool_calls" \in DOMAIN m /\ m.tool_calls # <<>>

TextTurn(role, content) == [role |-> role, parts |-> <<[text |-> content]>>]

UserTurn(content) == TextTurn("user", content)

ModelTextTurnAsUser(content) == TextTurn("user", content)
ModelTextTurn(content) == TextTurn("model", content)

\* system_instruction = content
SystemSlotFirstWins(old, content) == IF old = JNull THEN content ELSE old
SystemSlot(old, content) == content

\* contents.append(turn), for each turn in order
ExtendedInFront(acc, turns) == turns \o acc
Extended(acc, turns) == acc \o turns

FunctionCallTurnUnparsed(tool_call) ==
  [role |-> "model",
   parts |-> <<[function_call |->
                  [name |-> tool_call.function.name,
                   args |-> JStr(tool_call.function.arguments)]]>>]
FunctionCallTurn(tool_call) ==
  [role |-> "model",
   parts |-> <<[function_call |->
                  [name |-> tool_call.function.name,
                   args |-> JsonLoads(tool_call.function.arguments).val]]>>]

\* json.loads(content) if isinstance(content, str) else content
ToolResponseValue(content) ==
  IF IsStr(content) THEN JsonLoads(content[2]).val ELSE content

\* whether evaluating the expression above raises json.JSONDecodeError
ToolResponseRaises(content) == IsStr(content) /\ ~JsonLoads(content[2]).ok

FunctionResponseTurn(m) ==
  [role |-> "user",
   parts |-> <<[function_response |->
                  [name |-> m.name,
                   response |-> ToolResponseValue(MsgContent(m))]]>>]

\* The tool calls of m up to and including the first whose arguments do not
\* parse are reached by the inner loop; it raises iff there is such a call.
CallsRaise(m) ==
  \E k \in 1..Len(m.tool_calls) :
     ~JsonLoads(m.tool_calls[k].function.arguments).ok

(***************************************************************************)
(* Vendor responses (dicts).                                               *)
(***************************************************************************)
TextPart(s) == [text |-> JStr(s)]
CallPart(name, args) == [function_call |-> [name |-> name, args |-> args]]

objNone == JObj(<<>>)
objA1 == JObj(<< <<<<"a">>, JInt(1)>> >>)
\* {"a": "B", "b": {"c": true, "d": null}}
objNested ==
  JObj(<< <<<<"a">>, JStr(sB)>>,
          <<<<"b">>, JObj(<< <<<<"c">>, JBool(TRUE)>>, <<<<"d">>, JNull>> >>)>> >>)

Parts ==
  {TextPart(sA), TextPart(sB), TextPart(sEmpty),
   CallPart(nameF, objNone), CallPart(nameG, objA1), CallPart(nameF, objA1),
   CallPart(nameG, objNested),
   \* a function call without its name, and one without its args
   [function_call |-> [args |-> objNone]],
   [function_call |-> [name |-> nameF]],
   \* a part that is neither, and one that is both
   [inline_data |-> JStr(sA)],
   [text |-> JStr(sA), function_call |-> [name |-> nameG, args |-> objNone]]}

WithParts(ps) == [content |-> [role |-> "model", parts |-> ps]]
NoPartsCandidate == [content |-> [role |-> "model"]]
NoContentCandidate == [finishReason |-> "SAFETY"]

FirstCandidates ==
  {WithParts(ps) : ps \in SeqsUpTo(Parts, MaxParts)}
  \cup {NoPartsCandidate, NoContentCandidate}

LaterCandidates ==
  {NoContentCandidate, WithParts(<<TextPart(sB)>>),
   WithParts(<<CallPart(nameG, objA1)>>)}

NoCandidatesKey == [promptFeedback |-> "BLOCKED"]

Responses ==
  {[candidates |-> <<first>> \o rest] :
     first \in FirstCandidates, rest \in SeqsUpTo(LaterCandidates, MaxCands - 1)}
  \cup {[candidates |-> <<>>], NoCandidatesKey}

(***************************************************************************)
(* hash(str): a function of the string and of the process's seed, here a   *)
(* polynomial over the character codes reduced to a signed range.          *)
(***************************************************************************)
HashSpan == 65536

CodedChars == <<"a", "b", "c", "d", "e", "f", "g", "h">>

CharCode(ch) == 96 + (CHOOSE k \in 1..Len(CodedChars) : CodedChars[k] = ch)

RECURSIVE PolyHash(_, _)
PolyHash(s, acc) ==
  IF s = <<>> THEN acc
  ELSE PolyHash(Tail(s), (31 * acc + CharCode(Head(s))) % HashSpan)

PyHash(seed, s) == PolyHash(s, seed) - (HashSpan \div 2)

\* str(n) for an integer of either sign
IntStr(n) == IF n < 0 THEN <<"-">> \o IntChars(0 - n) ELSE IntChars(n)

\* f"call_{hash(name)}"
CallId(seed, name) == <<"c", "a", "l", "l", "_">> \o IntStr(PyHash(seed, name))

(***************************************************************************)
(* convert_response.                                                       *)
(***************************************************************************)
\* response_data["candidates"][0]
SelectedCandidateLast(response) == response.candidates[Len(response.candidates)]
SelectedCandidate(response) == response.candidates[1]

\* The first lookup among ["candidates"], [0], ["content"], ["parts"] that
\* fails, as the exception it raises; NoExc when all succeed.
LookupError(response) ==
  IF "candidates" \notin DOMAIN response THEN KeyError("candidates")
  ELSE IF response.candidates = <<>> THEN IndexError
  ELSE IF "content" \notin DOMAIN SelectedCandidate(response)
       THEN KeyError("content")
  ELSE IF "parts" \notin DOMAIN SelectedCandidate(response).content
       THEN KeyError("parts")
  ELSE NoExc

InvalidFormat == "Invalid response format from Google Gemini API"

\* The KeyError a function-call part raises, NoExc when it has name and args.
PartError(part) ==
  IF "name" \notin DOMAIN part.function_call THEN KeyError("name")
  ELSE IF "args" \notin DOMAIN part.function_call THEN KeyError("args")
  ELSE NoExc

\* The entry appended to function_calls for a function-call part.
ToolCallOfArgsInId(seed, part) ==
  [type |-> "function",
   id |-> CallId(seed, part.function_call.name
                       \o (IF Len(JsonDumps(part.function_call.args)) > 2
                           THEN <<"a">> ELSE <<>>)),
   function |-> [name |-> part.function_call.name,
                 arguments |-> JsonDumps(part.function_call.args)]]
ToolCallOf(seed, part) ==
  [type |-> "function",
   id |-> CallId(seed, part.function_call.name),
   function |-> [name |-> part.function_call.name,
                 arguments |-> JsonDumps(part.function_call.args)]]

\* Message(role=..., content=..., tool_calls=...); tool_calls left unset is
\* the empty sequence.
Message(role, content, tool_calls) ==
  [role |-> role, content |-> content, tool_calls |-> tool_calls]

\* ChatCompletionResponse() with choices[0].message and .finish_reason set.
ChatCompletionResponse(message, finish_reason) ==
  [choices |-> <<[message |-> message, finish_reason |-> finish_reason]>>]

\* text_content += part["text"]
TextAfterReversed(text, part) == part.text[2] \o text
TextAfter(text, part) == text \o part.text[2]

\* The response built after the loop (lines 127-141).
BuildResponseKeepText(calls, text) ==
  IF calls # <<>>
  THEN ChatCompletionResponse(Message("assistant", JStr(text), calls), "tool_calls")
  ELSE ChatCompletionResponse(Message("assistant", JStr(text), <<>>), "stop")
BuildResponse(calls, text) ==
  IF calls # <<>>
  THEN ChatCompletionResponse(Message("assistant", JNull, calls), "tool_calls")
  ELSE ChatCompletionResponse(Message("assistant", JStr(text), <<>>), "stop")

(***************************************************************************)
(* The options and transport of chat_completions_create.  temperature and  *)
(* top_p are in hundredths (0.7 is 70).                                    *)
(***************************************************************************)
DEFAULT_TEMPERATURE == 70

\* kwargs.get(key, default)
Get(d, key, default) == IF key \in DOMAIN d THEN d[key] ELSE default

\* d[key] = value
SetKey(d, key, value) ==
  [k \in DOMAIN d \cup {key} |-> IF k = key THEN value ELSE d[k]]

GenerationConfigOtherKey(kw) ==
  [temperature |-> Get(kw, "temperature", DEFAULT_TEMPERATURE),
   maxOutputTokens |-> Get(kw, "max_output_tokens", 8192),
   topP |-> Get(kw, "top_p", 95),
   topK |-> Get(kw, "top_k", 40)]
GenerationConfig(kw) ==
  [temperature |-> Get(kw, "temperature", DEFAULT_TEMPERATURE),
   maxOutputTokens |-> Get(kw, "max_tokens", 8192),
   topP |-> Get(kw, "top_p", 95),
   topK |-> Get(kw, "top_k", 40)]

\* The KeyError translating a tool raises, NoExc when it has what is read.
ToolError(tool) ==
  IF "function" \notin DOMAIN tool THEN KeyError("function")
  ELSE IF "name" \notin DOMAIN tool.function THEN KeyError("name")
  ELSE IF "parameters" \notin DOMAIN tool.function THEN KeyError("parameters")
  ELSE NoExc

Declaration(tool) ==
  [function_declarations |->
     <<[name |-> tool.function.name,
        description |-> Get(tool.function, "description", sEmpty),
        parameters |-> tool.function.parameters]>>]

\* The first tool, in order, whose translation raises, as its error.
RECURSIVE ToolsError(_)
ToolsError(tools) ==
  IF tools = <<>> THEN NoExc
  ELSE IF ToolError(Head(tools)) # NoExc THEN ToolError(Head(tools))
  ELSE ToolsError(Tail(tools))

\* Lines 189-207 applied to the converted request.
ConfigError(kw) == IF "tools" \in DOMAIN kw THEN ToolsError(kw.tools) ELSE NoExc

ConfiguredOneList(request, kw) ==
  LET withConfig == SetKey(request, "generationConfig", GenerationConfig(kw))
  IN IF "tools" \in DOMAIN kw
     THEN SetKey(withConfig, "tools",
                 <<[function_declarations |->
                      [k \in 1..Len(kw.tools) |->
                         Declaration(kw.tools[k]).function_declarations[1]]]>>)
     ELSE withConfig
Configured(request, kw) ==
  LET withConfig == SetKey(request, "generationConfig", GenerationConfig(kw))
  IN IF "tools" \in DOMAIN kw
     THEN SetKey(withConfig, "tools",
                 [k \in 1..Len(kw.tools) |-> Declaration(kw.tools[k])])
     ELSE withConfig

schemaNone == JObj(<<>>)

ToolSpec(name, description) ==
  [type |-> "function",
   function |-> [name |-> name, description |-> description,
                 parameters |-> schemaNone]]

toolNoDescription ==
  [type |-> "function", function |-> [name |-> nameG, parameters |-> schemaNone]]

toolNoParameters ==
  [type |-> "function", function |-> [name |-> nameG, description |-> sB]]

ChatKwargs ==
  {<<>>,
   [temperature |-> 20, max_tokens |-> 100],
   [top_p |-> 50, top_k |-> 10, max_turns |-> 2],
   [tools |-> <<ToolSpec(nameF, sA), toolNoDescription>>],
   [tools |-> <<ToolSpec(nameF, sA), toolNoParameters>>],
   [tools |-> <<>>, temperature |-> 0]}

ChatMessages ==
  {SystemMsg(JStr(sA)), UserMsg(JStr(sA)),
   AssistantCalls(<<ToolCall(nameF, argsBad)>>), ToolMsg(nameF, JStr(textPlain))}

ChatMessageLists == SeqsUpTo(ChatMessages, MaxChatMsgs)

ChatResponses ==
  {[candidates |-> <<WithParts(<<TextPart(sA)>>)>>],
   [candidates |-> <<WithParts(<<TextPart(sA), CallPart(nameF, objA1)>>)>>],
   [candidates |-> <<WithParts(<<[function_call |-> [name |-> nameF]]>>)>>],
   [candidates |-> <<>>],
   NoCandidatesKey}

\* What requests.post, raise_for_status and response.json can raise.
TransportFailures ==
  {Exc("ConnectionError", "connection failed", NoCause),
   Exc("Timeout", "timed out", NoCause),
   Exc("HTTPError", "status", NoCause),
   Exc("JSONDecodeError", "body is not JSON", NoCause)}

\* The message of the ValueError that line 225 or 227 raises from e: a
\* requests.exceptions.JSONDecodeError is a RequestException (line 225), a
\* json.JSONDecodeError that is none is caught at line 227.
\* Where the call is after "raise ValueError" at lines 225 and 227.
AfterTransportFailureRetry == "post"
AfterTransportFailure == "raised"

FailureMessages(e) ==
  IF e.type = "JSONDecodeError"
  THEN {"Failed to call Google Gemini REST API",
        "Invalid JSON response from Google Gemini API"}
  ELSE {"Failed to call Google Gemini REST API"}

\* request_data = {"contents": contents}, plus systemInstruction if truthy.
RequestData(turns, si) ==
  IF Truthy(si)
  THEN [contents |-> turns, systemInstruction |-> [parts |-> <<[text |-> si]>>]]
  ELSE [contents |-> turns]

\* The accumulator the loop appends to: the local list of this call.
AccumulatorShared(c, acc) == acc[1]
Accumulator(c, acc) == acc[c]

(***************************************************************************)
(* The two conversions as functions of their argument: what one call,      *)
(* run from start to end on its own, returns or raises.                    *)
(***************************************************************************)
Returns(value) == [ret |-> value, exc |-> NoExc]
Raises(e) == [ret |-> NoValue, exc |-> e]

RECURSIVE RequestLoop(_, _, _)
RequestLoop(msgs, turns, si) ==
  IF msgs = <<>> THEN Returns(RequestData(turns, si))
  ELSE LET m == Head(msgs)
           rest == Tail(msgs)
       IN CASE m.role = "system" ->
                 RequestLoop(rest, turns, SystemSlot(si, MsgContent(m)))
            [] m.role = "user" ->
                 RequestLoop(rest, Extended(turns, <<UserTurn(MsgContent(m))>>), si)
            [] m.role = "assistant" /\ HasToolCalls(m) ->
                 IF CallsRaise(m) THEN Raises(JSONDecodeError)
                 ELSE RequestLoop(rest,
                        Extended(turns, [k \in 1..Len(m.tool_calls) |->
                                           FunctionCallTurn(m.tool_calls[k])]), si)
            [] m.role = "assistant" /\ ~HasToolCalls(m) ->
                 RequestLoop(rest, Extended(turns, <<ModelTextTurn(MsgContent(m))>>), si)
            [] m.role = "tool" ->
                 IF ToolResponseRaises(MsgContent(m)) THEN Raises(JSONDecodeError)
                 ELSE RequestLoop(rest, Extended(turns, <<FunctionResponseTurn(m)>>), si)

ConvertRequest(msgs) == RequestLoop(msgs, <<>>, JNull)

RECURSIVE PartsLoop(_, _, _, _)
PartsLoop(seed, ps, calls, text) ==
  IF ps = <<>> THEN Returns(BuildResponse(calls, text))
  ELSE LET part == Head(ps)
       IN IF "function_call" \in DOMAIN part
          THEN IF PartError(part) # NoExc
               THEN Raises(ValueErrorFrom(InvalidFormat, PartError(part)))
               ELSE PartsLoop(seed, Tail(ps), Append(calls, ToolCallOf(seed, part)), text)
          ELSE IF "text" \in DOMAIN part
               THEN PartsLoop(seed, Tail(ps), calls, TextAfter(text, part))
               ELSE PartsLoop(seed, Tail(ps), calls, text)

ConvertResponse(seed, payload) ==
  IF LookupError(payload) # NoExc
  THEN Raises(ValueErrorFrom(InvalidFormat, LookupError(payload)))
  ELSE PartsLoop(seed, SelectedCandidate(payload).content.parts, <<>>, sEmpty)

(***************************************************************************)
(* The inputs of the callers that run side by side.                        *)
(***************************************************************************)
ConcMessageLists ==
  {<<SystemMsg(JStr(sA)), UserMsg(JStr(sA))>>,
   <<AssistantMsg(JStr(sB)), ToolMsg(nameF, JStr(argsA1))>>,
   <<AssistantCalls(<<ToolCall(nameF, argsA1), ToolCall(nameG, argsNone)>>)>>,
   <<UserMsg(JStr(sB)), AssistantCalls(<<ToolCall(nameF, argsBad)>>)>>,
   <<ToolMsg(nameF, JStr(textPlain))>>}

ConcResponses ==
  {[candidates |-> <<WithParts(<<TextPart(sA), TextPart(sB)>>)>>],
   [candidates |-> <<WithParts(<<CallPart(nameF, objA1), TextPart(sA)>>),
                     NoContentCandidate>>],
   [candidates |-> <<WithParts(<<[inline_data |-> JStr(sA)],
                                 [function_call |-> [name |-> nameF]]>>)>>],
   [candidates |-> <<>>]}

VARIABLES
  hashseed,            \* the process's string-hash seed (PYTHONHASHSEED)
  op,                  \* the function each caller is in, or "idle"
  pc,                  \* the position of each caller
  messages,            \* the caller's message list (argument)
  response_data,       \* the vendor payload (argument, or what the transport gave)
  given,               \* the arguments as they were when the call was made
  kwargs,              \* the options of chat_completions_create
  idx,                 \* convert_request: messages consumed
  contents,            \* convert_request: accumulator of turns
  system_instruction,  \* convert_request: the system-instruction slot
  request_data,        \* the request payload
  sent,                \* the bodies handed to requests.post, in order
  trace,               \* chat_completions_create: the steps taken, in order
  parts,               \* convert_response: the first candidate's parts
  pidx,                \* convert_response: parts consumed
  function_calls,      \* convert_response: tool-call accumulator
  text_content,        \* convert_response: text accumulator
  ret,                 \* the value returned, or NoValue
  exc                  \* the exception raised, or NoExc

argVars == <<messages, response_data, kwargs, given>>
reqVars == <<idx, contents, system_instruction>>
chatVars == <<request_data, sent, trace>>
respVars == <<parts, pidx, function_calls, text_content>>
outVars == <<ret, exc>>
vars == <<hashseed, op, pc, argVars, reqVars, chatVars, respVars, outVars>>

NoArguments == [messages |-> <<>>, response_data |-> <<>>]

Init ==
  /\ hashseed \in 0..MaxSeed
  /\ op = [c \in Callers |-> "idle"]
  /\ pc = [c \in Callers |-> "idle"]
  /\ messages = [c \in Callers |-> <<>>]
  /\ response_data = [c \in Callers |-> <<>>]
  /\ given = [c \in Callers |-> NoArguments]
  /\ kwargs = [c \in Callers |-> <<>>]
  /\ idx = [c \in Callers |-> 0]
  /\ contents = [c \in Callers |-> <<>>]
  /\ system_instruction = [c \in Callers |-> JNull]
  /\ request_data = [c \in Callers |-> <<>>]
  /\ sent = [c \in Callers |-> <<>>]
  /\ trace = [c \in Callers |-> <<>>]
  /\ parts = [c \in Callers |-> <<>>]
  /\ pidx = [c \in Callers |-> 0]
  /\ function_calls = [c \in Callers |-> <<>>]
  /\ text_content = [c \in Callers |-> sEmpty]
  /\ ret = [c \in Callers |-> NoValue]
  /\ exc = [c \in Callers |-> NoExc]

\* The caller calls convert_request(msgs), msgs one of the lists given.
CallConvertRequest(c, lists) ==
  /\ pc[c] = "idle"
  /\ op' = [op EXCEPT ![c] = "convert_request"]
  /\ pc' = [pc EXCEPT ![c] = "req_loop"]
  /\ \E msgs \in lists :
       /\ messages' = [messages EXCEPT ![c] = msgs]
       /\ given' = [given EXCEPT ![c].messages = msgs]
  /\ idx' = [idx EXCEPT ![c] = 0]
  /\ contents' = [contents EXCEPT ![c] = <<>>]
  /\ system_instruction' = [system_instruction EXCEPT ![c] = JNull]
  /\ UNCHANGED <<hashseed, response_data, kwargs, chatVars, respVars, outVars>>

\* The message the loop is at.
Current(c) == messages[c][idx[c] + 1]

InLoop(c) == pc[c] = "req_loop" /\ idx[c] < Len(messages[c])

\* An iteration that appends turns and leaves the slot alone.
AppendTurns(c, turns) ==
  /\ contents' = [contents EXCEPT ![c] = Extended(Accumulator(c, contents), turns)]
  /\ idx' = [idx EXCEPT ![c] = idx[c] + 1]
  /\ UNCHANGED <<hashseed, op, pc, argVars, system_instruction, chatVars,
                 respVars, outVars>>

\* An exception leaves the function: its locals are gone.
Raise(c, e) ==
  /\ pc' = [pc EXCEPT ![c] = "raised"]
  /\ exc' = [exc EXCEPT ![c] = e]
  /\ UNCHANGED <<hashseed, op, argVars, reqVars, chatVars, respVars, ret>>

ReqSystem(c) ==
  /\ InLoop(c)
  /\ Current(c).role = "system"
  /\ system_instruction' =
       [system_instruction EXCEPT ![c] =
          SystemSlot(system_instruction[c], MsgContent(Current(c)))]
  /\ idx' = [idx EXCEPT ![c] = idx[c] + 1]
  /\ UNCHANGED <<hashseed, op, pc, argVars, contents, chatVars, respVars, outVars>>

ReqUser(c) ==
  /\ InLoop(c)
  /\ Current(c).role = "user"
  /\ AppendTurns(c, <<UserTurn(MsgContent(Current(c)))>>)

ReqAssistantCalls(c) ==
  /\ InLoop(c)
  /\ Current(c).role = "assistant"
  /\ HasToolCalls(Current(c))
  /\ ~CallsRaise(Current(c))
  /\ AppendTurns(c, [k \in 1..Len(Current(c).tool_calls) |->
                       FunctionCallTurn(Current(c).tool_calls[k])])

ReqAssistantCallsRaise(c) ==
  /\ InLoop(c)
  /\ Current(c).role = "assistant"
  /\ HasToolCalls(Current(c))
  /\ CallsRaise(Current(c))
  /\ Raise(c, JSONDecodeError)

ReqAssistantText(c) ==
  /\ InLoop(c)
  /\ Current(c).role = "assistant"
  /\ ~HasToolCalls(Current(c))
  /\ AppendTurns(c, <<ModelTextTurn(MsgContent(Current(c)))>>)

ReqTool(c) ==
  /\ InLoop(c)
  /\ Current(c).role = "tool"
  /\ ~ToolResponseRaises(MsgContent(Current(c)))
  /\ AppendTurns(c, <<FunctionResponseTurn(Current(c))>>)

ReqToolRaise(c) ==
  /\ InLoop(c)
  /\ Current(c).role = "tool"
  /\ ToolResponseRaises(MsgContent(Current(c)))
  /\ Raise(c, JSONDecodeError)

ReqFinish(c) ==
  /\ pc[c] = "req_loop"
  /\ idx[c] = Len(messages[c])
  /\ request_data' =
       [request_data EXCEPT ![c] = RequestData(contents[c], system_instruction[c])]
  /\ IF op[c] = "convert_request"
     THEN /\ pc' = [pc EXCEPT ![c] = "returned"]
          /\ ret' = [ret EXCEPT ![c] =
                       RequestData(contents[c], system_instruction[c])]
     ELSE /\ pc' = [pc EXCEPT ![c] = "config"]
          /\ UNCHANGED ret
  /\ UNCHANGED <<hashseed, op, argVars, reqVars, sent, trace, respVars, exc>>

\* The caller takes the outcome; the call's frame is gone.
Return(c) ==
  /\ pc[c] \in {"returned", "raised"}
  /\ op' = [op EXCEPT ![c] = "idle"]
  /\ pc' = [pc EXCEPT ![c] = "idle"]
  /\ messages' = [messages EXCEPT ![c] = <<>>]
  /\ response_data' = [response_data EXCEPT ![c] = <<>>]
  /\ given' = [given EXCEPT ![c] = NoArguments]
  /\ kwargs' = [kwargs EXCEPT ![c] = <<>>]
  /\ idx' = [idx EXCEPT ![c] = 0]
  /\ contents' = [contents EXCEPT ![c] = <<>>]
  /\ system_instruction' = [system_instruction EXCEPT ![c] = JNull]
  /\ request_data' = [request_data EXCEPT ![c] = <<>>]
  /\ sent' = [sent EXCEPT ![c] = <<>>]
  /\ trace' = [trace EXCEPT ![c] = <<>>]
  /\ parts' = [parts EXCEPT ![c] = <<>>]
  /\ pidx' = [pidx EXCEPT ![c] = 0]
  /\ function_calls' = [function_calls EXCEPT ![c] = <<>>]
  /\ text_content' = [text_content EXCEPT ![c] = sEmpty]
  /\ ret' = [ret EXCEPT ![c] = NoValue]
  /\ exc' = [exc EXCEPT ![c] = NoExc]
  /\ UNCHANGED hashseed

\* The caller calls convert_response(payload), payload one of those given.
CallConvertResponse(c, payloads) ==
  /\ pc[c] = "idle"
  /\ op' = [op EXCEPT ![c] = "convert_response"]
  /\ pc' = [pc EXCEPT ![c] = "resp_start"]
  /\ \E payload \in payloads :
       /\ response_data' = [response_data EXCEPT ![c] = payload]
       /\ given' = [given EXCEPT ![c].response_data = payload]
  /\ UNCHANGED <<hashseed, messages, kwargs, reqVars, chatVars, respVars, outVars>>

\* Lines 105-111: the lookups succeed and the accumulators start empty.
RespParse(c) ==
  /\ pc[c] = "resp_start"
  /\ LookupError(response_data[c]) = NoExc
  /\ pc' = [pc EXCEPT ![c] = "resp_loop"]
  /\ parts' = [parts EXCEPT ![c] = SelectedCandidate(response_data[c]).content.parts]
  /\ pidx' = [pidx EXCEPT ![c] = 0]
  /\ function_calls' = [function_calls EXCEPT ![c] = <<>>]
  /\ text_content' = [text_content EXCEPT ![c] = sEmpty]
  /\ trace' = [trace EXCEPT ![c] =
                 IF op[c] = "chat_completions_create"
                 THEN Append(trace[c], "convert_response") ELSE trace[c]]
  /\ UNCHANGED <<hashseed, op, argVars, reqVars, request_data, sent, outVars>>

\* Lines 105-107 raise KeyError or IndexError, re-raised as ValueError.
RespParseRaise(c) ==
  /\ pc[c] = "resp_start"
  /\ LookupError(response_data[c]) # NoExc
  /\ pc' = [pc EXCEPT ![c] = "raised"]
  /\ exc' = [exc EXCEPT ![c] =
               ValueErrorFrom(InvalidFormat, LookupError(response_data[c]))]
  /\ trace' = [trace EXCEPT ![c] =
                 IF op[c] = "chat_completions_create"
                 THEN Append(trace[c], "convert_response") ELSE trace[c]]
  /\ UNCHANGED <<hashseed, op, argVars, reqVars, request_data, sent, respVars, ret>>

CurrentPart(c) == parts[c][pidx[c] + 1]

InPartLoop(c) == pc[c] = "resp_loop" /\ pidx[c] < Len(parts[c])

RespFunctionCall(c) ==
  /\ InPartLoop(c)
  /\ "function_call" \in DOMAIN CurrentPart(c)
  /\ PartError(CurrentPart(c)) = NoExc
  /\ function_calls' = [function_calls EXCEPT ![c] =
                          Append(function_calls[c], ToolCallOf(hashseed, CurrentPart(c)))]
  /\ pidx' = [pidx EXCEPT ![c] = pidx[c] + 1]
  /\ UNCHANGED <<hashseed, op, pc, argVars, reqVars, chatVars, parts,
                 text_content, outVars>>

RespFunctionCallRaise(c) ==
  /\ InPartLoop(c)
  /\ "function_call" \in DOMAIN CurrentPart(c)
  /\ PartError(CurrentPart(c)) # NoExc
  /\ Raise(c, ValueErrorFrom(InvalidFormat, PartError(CurrentPart(c))))

RespText(c) ==
  /\ InPartLoop(c)
  /\ "function_call" \notin DOMAIN CurrentPart(c)
  /\ "text" \in DOMAIN CurrentPart(c)
  /\ text_content' = [text_content EXCEPT ![c] =
                        TextAfter(text_content[c], CurrentPart(c))]
  /\ pidx' = [pidx EXCEPT ![c] = pidx[c] + 1]
  /\ UNCHANGED <<hashseed, op, pc, argVars, reqVars, chatVars, parts,
                 function_calls, outVars>>

RespSkip(c) ==
  /\ InPartLoop(c)
  /\ "function_call" \notin DOMAIN CurrentPart(c)
  /\ "text" \notin DOMAIN CurrentPart(c)
  /\ pidx' = [pidx EXCEPT ![c] = pidx[c] + 1]
  /\ UNCHANGED <<hashseed, op, pc, argVars, reqVars, chatVars, parts,
                 function_calls, text_content, outVars>>

RespFinish(c) ==
  /\ pc[c] = "resp_loop"
  /\ pidx[c] = Len(parts[c])
  /\ pc' = [pc EXCEPT ![c] = "returned"]
  /\ ret' = [ret EXCEPT ![c] = BuildResponse(function_calls[c], text_content[c])]
  /\ UNCHANGED <<hashseed, op, argVars, reqVars, chatVars, respVars, exc>>

ResponseStep(c) ==
  \/ RespParse(c)
  \/ RespParseRaise(c)
  \/ RespFunctionCall(c)
  \/ RespFunctionCallRaise(c)
  \/ RespText(c)
  \/ RespSkip(c)
  \/ RespFinish(c)

\* The caller calls chat_completions_create(model, msgs, **kw).
ChatCall(c, lists, options) ==
  /\ pc[c] = "idle"
  /\ op' = [op EXCEPT ![c] = "chat_completions_create"]
  /\ pc' = [pc EXCEPT ![c] = "req_loop"]
  /\ \E msgs \in lists :
       /\ messages' = [messages EXCEPT ![c] = msgs]
       /\ given' = [given EXCEPT ![c].messages = msgs]
  /\ \E kw \in options : kwargs' = [kwargs EXCEPT ![c] = kw]
  /\ idx' = [idx EXCEPT ![c] = 0]
  /\ contents' = [contents EXCEPT ![c] = <<>>]
  /\ system_instruction' = [system_instruction EXCEPT ![c] = JNull]
  /\ trace' = [trace EXCEPT ![c] = <<"convert_request">>]
  /\ UNCHANGED <<hashseed, response_data, request_data, sent, respVars, outVars>>

\* Lines 189-207: generationConfig and tools are attached.
ChatConfig(c) ==
  /\ pc[c] = "config"
  /\ ConfigError(kwargs[c]) = NoExc
  /\ pc' = [pc EXCEPT ![c] = "post"]
  /\ request_data' = [request_data EXCEPT ![c] = Configured(request_data[c], kwargs[c])]
  /\ trace' = [trace EXCEPT ![c] = Append(trace[c], "config")]
  /\ UNCHANGED <<hashseed, op, argVars, reqVars, sent, respVars, outVars>>

\* Lines 199-206 raise KeyError on a tool that lacks a key.
ChatConfigRaise(c) ==
  /\ pc[c] = "config"
  /\ ConfigError(kwargs[c]) # NoExc
  /\ pc' = [pc EXCEPT ![c] = "raised"]
  /\ exc' = [exc EXCEPT ![c] = ConfigError(kwargs[c])]
  /\ trace' = [trace EXCEPT ![c] = Append(trace[c], "config")]
  /\ UNCHANGED <<hashseed, op, argVars, reqVars, request_data, sent, respVars, ret>>

\* Lines 218-222: the transport answers with a JSON body.
ChatPost(c, payloads) ==
  /\ pc[c] = "post"
  /\ pc' = [pc EXCEPT ![c] = "resp_start"]
  /\ sent' = [sent EXCEPT ![c] = Append(sent[c], request_data[c])]
  /\ trace' = [trace EXCEPT ![c] = Append(trace[c], "post")]
  /\ \E payload \in payloads :
       response_data' = [response_data EXCEPT ![c] = payload]
  /\ UNCHANGED <<hashseed, op, messages, kwargs, given, reqVars, request_data,
                 respVars, outVars>>

\* Lines 218-227: the transport fails, and the failure is re-raised.
ChatPostRaise(c) ==
  /\ pc[c] = "post"
  /\ pc' = [pc EXCEPT ![c] = AfterTransportFailure]
  /\ sent' = [sent EXCEPT ![c] = Append(sent[c], request_data[c])]
  /\ trace' = [trace EXCEPT ![c] = Append(trace[c], "post")]
  /\ \E e \in TransportFailures : \E msg \in FailureMessages(e) :
       exc' = [exc EXCEPT ![c] = ValueErrorFrom(msg, e)]
  /\ UNCHANGED <<hashseed, op, argVars, reqVars, request_data, respVars, ret>>

ChatStep(c) ==
  \/ ChatConfig(c)
  \/ ChatConfigRaise(c)
  \/ ChatPost(c, ChatResponses)
  \/ ChatPostRaise(c)

RequestStep(c) ==
  \/ ReqSystem(c)
  \/ ReqUser(c)
  \/ ReqAssistantCalls(c)
  \/ ReqAssistantCallsRaise(c)
  \/ ReqAssistantText(c)
  \/ ReqTool(c)
  \/ ReqToolRaise(c)
  \/ ReqFinish(c)

\* The tool-calling turn of a conversation: the message convert_response
\* returned carries tool calls, and the caller passes it, as the assistant
\* message of the next request, to convert_request.  The response it came
\* from stays on record.
CallConvertRequestWithToolCalls(c) ==
  /\ pc[c] = "returned"
  /\ op[c] = "convert_response"
  /\ HasToolCalls(ret[c].choices[1].message)
  /\ op' = [op EXCEPT ![c] = "convert_request"]
  /\ pc' = [pc EXCEPT ![c] = "req_loop"]
  /\ messages' = [messages EXCEPT ![c] = <<ret[c].choices[1].message>>]
  /\ given' = [given EXCEPT ![c].messages = <<ret[c].choices[1].message>>]
  /\ idx' = [idx EXCEPT ![c] = 0]
  /\ contents' = [contents EXCEPT ![c] = <<>>]
  /\ system_instruction' = [system_instruction EXCEPT ![c] = JNull]
  /\ parts' = [parts EXCEPT ![c] = <<>>]
  /\ pidx' = [pidx EXCEPT ![c] = 0]
  /\ function_calls' = [function_calls EXCEPT ![c] = <<>>]
  /\ text_content' = [text_content EXCEPT ![c] = sEmpty]
  /\ ret' = [ret EXCEPT ![c] = NoValue]
  /\ UNCHANGED <<hashseed, response_data, kwargs, chatVars, exc>>

Next ==
  \E c \in {1} :
    \/ CallConvertRequest(c, MessageLists)
    \/ CallConvertRequestWithToolCalls(c)
    \/ CallConvertResponse(c, Responses)
    \/ ChatCall(c, ChatMessageLists, ChatKwargs)
    \/ RequestStep(c)
    \/ ChatStep(c)
    \/ ResponseStep(c)
    \/ Return(c)

Spec == Init /\ [][Next]_vars

\* Several callers use the converter side by side.
NextConc ==
  \E c \in Callers :
    \/ CallConvertRequest(c, ConcMessageLists)
    \/ CallConvertResponse(c, ConcResponses)
    \/ RequestStep(c)
    \/ ResponseStep(c)
    \/ Return(c)

SpecConc == Init /\ [][NextConc]_vars

(***************************************************************************)
(* Properties.                                                             *)
(***************************************************************************)
\* The call of c is in, or has left, the loop of convert_request.
InRequest(c) == op[c] \in {"convert_request", "chat_completions_create"}

\* convert_request itself raised (the loop stopped before the last message).
RequestRaised(c) ==
  InRequest(c) /\ pc[c] = "raised" /\ idx[c] < Len(messages[c])

\* The call of c has reached convert_response.
InResponse(c) ==
  \/ op[c] = "convert_response"
  \/ op[c] = "chat_completions_create" /\ trace[c] # <<>>
     /\ trace[c][Len(trace[c])] = "convert_response"

ResponseReturned(c) == InResponse(c) /\ pc[c] = "returned"
ResponseRaised(c) == InResponse(c) /\ pc[c] = "raised"

Last(seq) == seq[Len(seq)]

\* A tool message whose content is a string that is not JSON.
RawToolMessage(m) ==
  /\ m.role = "tool"
  /\ IsStr(MsgContent(m))
  /\ ~JsonLoads(MsgContent(m)[2]).ok

\* A tool message whose content is a string that is JSON.
JsonToolMessage(m) ==
  /\ m.role = "tool"
  /\ IsStr(MsgContent(m))
  /\ JsonLoads(MsgContent(m)[2]).ok

FunctionResponse(name, response) ==
  [role |-> "user",
   parts |-> <<[function_response |-> [name |-> name, response |-> response]]>>]

\* C1: convert_request never raises on a tool message whose content is a
\* string that is not valid JSON; the turn it appends for that message is
\* {role: user, parts: [function_response {name, response: the raw string}]},
\* and the parse result is the response only when the content parses.
C1_ToolContentDegradesToRawString ==
  \A c \in Callers :
    /\ RequestRaised(c) => ~RawToolMessage(Current(c))
    /\ (pc[c] = "req_loop" /\ idx[c] >= 1 /\ RawToolMessage(messages[c][idx[c]]))
         => /\ contents[c] # <<>>
            /\ Last(contents[c]) =
                 FunctionResponse(messages[c][idx[c]].name,
                                  MsgContent(messages[c][idx[c]]))
    /\ (pc[c] = "req_loop" /\ idx[c] >= 1 /\ JsonToolMessage(messages[c][idx[c]]))
         => /\ contents[c] # <<>>
            /\ Last(contents[c]) =
                 FunctionResponse(messages[c][idx[c]].name,
                                  JsonLoads(MsgContent(messages[c][idx[c]])[2]).val)

\* The parts of the first candidate of the payload c converts.
FirstParts(c) == response_data[c].candidates[1].content.parts

IsFunctionCallPart(part) == "function_call" \in DOMAIN part

TheMessage(c) == ret[c].choices[1].message
TheFinishReason(c) == ret[c].choices[1].finish_reason

\* C2: whenever convert_response returns, the decision rule holds: if the
\* first candidate's parts hold a function-call part (with or without text
\* parts, in any position) then content is null, tool_calls is not empty and
\* finish_reason is tool_calls; otherwise tool_calls is empty and
\* finish_reason is stop.  Content and tool_calls are never both populated.
C2_ToolCallsExcludeContent ==
  \A c \in Callers :
    ResponseReturned(c) =>
      /\ IF \E k \in 1..Len(FirstParts(c)) : IsFunctionCallPart(FirstParts(c)[k])
         THEN /\ TheMessage(c).content = JNull
              /\ TheMessage(c).tool_calls # <<>>
              /\ TheFinishReason(c) = "tool_calls"
         ELSE /\ TheMessage(c).tool_calls = <<>>
              /\ TheFinishReason(c) = "stop"
      /\ ~(TheMessage(c).content # JNull /\ TheMessage(c).tool_calls # <<>>)

\* A response with a non-empty text part followed by a function call was
\* converted.
C2_Witness ==
  \E c \in Callers :
    /\ ResponseReturned(c)
    /\ Len(FirstParts(c)) >= 2
    /\ \E j, k \in 1..Len(FirstParts(c)) :
         /\ j < k
         /\ ~IsFunctionCallPart(FirstParts(c)[j])
         /\ "text" \in DOMAIN FirstParts(c)[j]
         /\ FirstParts(c)[j].text # JStr(sEmpty)
         /\ IsFunctionCallPart(FirstParts(c)[k])

IsTextOnlyPart(part) == DOMAIN part = {"text"}

RECURSIVE JoinedText(_)
JoinedText(ps) ==
  IF ps = <<>> THEN <<>> ELSE Head(ps).text[2] \o JoinedText(Tail(ps))

\* C3: for a payload whose first candidate holds only text parts (none, or
\* some with empty text, included), convert_response returns finish_reason
\* stop and content equal to the texts of the parts joined in part order; an
\* empty join gives the empty string and no error.
C3_TextPartsAreJoinedInOrder ==
  \A c \in Callers :
    ( /\ InResponse(c)
      /\ pc[c] \in {"returned", "raised"}
      /\ LookupError(response_data[c]) = NoExc
      /\ \A k \in 1..Len(FirstParts(c)) : IsTextOnlyPart(FirstParts(c)[k]) )
    => /\ pc[c] = "returned"
       /\ TheFinishReason(c) = "stop"
       /\ TheMessage(c).content = JStr(JoinedText(FirstParts(c)))

\* Two different non-empty texts were joined.
C3_Witness ==
  \E c \in Callers :
    /\ ResponseReturned(c)
    /\ FirstParts(c) = <<TextPart(sA), TextPart(sB)>>

\* The parse failure the claim names for a payload without the required
\* shape, NoExc for a payload that has it.
RECURSIVE MissingInParts(_)
MissingInParts(ps) ==
  IF ps = <<>> THEN NoExc
  ELSE IF IsFunctionCallPart(Head(ps))
          /\ "name" \notin DOMAIN Head(ps).function_call
       THEN KeyError("name")
  ELSE IF IsFunctionCallPart(Head(ps))
          /\ "args" \notin DOMAIN Head(ps).function_call
       THEN KeyError("args")
  ELSE MissingInParts(Tail(ps))

MissingShape(payload) ==
  IF "candidates" \notin DOMAIN payload THEN KeyError("candidates")
  ELSE IF Len(payload.candidates) = 0 THEN IndexError
  ELSE IF "content" \notin DOMAIN payload.candidates[1] THEN KeyError("content")
  ELSE IF "parts" \notin DOMAIN payload.candidates[1].content THEN KeyError("parts")
  ELSE MissingInParts(payload.candidates[1].content.parts)

\* C4: on a payload without the required shape (no candidates key, no
\* candidate, a first candidate without content, a content without parts, a
\* function-call part without name or args) convert_response ends by raising
\* the malformed-response error, which carries the parse failure, and no
\* response object is returned.
C4_MalformedPayloadRaises ==
  \A c \in Callers :
    ( /\ InResponse(c)
      /\ pc[c] \in {"returned", "raised"}
      /\ MissingShape(response_data[c]) # NoExc )
    => /\ pc[c] = "raised"
       /\ ret[c] = NoValue
       /\ exc[c].type = "ValueError"
       /\ exc[c].msg = InvalidFormat
       /\ exc[c].cause = [type |-> MissingShape(response_data[c]).type,
                          arg |-> MissingShape(response_data[c]).msg]

\* A payload whose second part is a function call without args was rejected
\* after a first part had been accumulated.
C4_Witness ==
  \E c \in Callers :
    /\ ResponseRaised(c)
    /\ LookupError(response_data[c]) = NoExc
    /\ Len(FirstParts(c)) = 2
    /\ IsTextOnlyPart(FirstParts(c)[1])
    /\ FirstParts(c)[2] = [function_call |-> [name |-> nameF]]

\* convert_request returned to the caller c that called it.
RequestReturned(c) == op[c] = "convert_request" /\ pc[c] = "returned"

IsSystem(m) == m.role = "system"

\* The content of the last system message of msgs (there is one).
LastSystemContent(msgs) ==
  LET k == CHOOSE j \in 1..Len(msgs) :
             /\ IsSystem(msgs[j])
             /\ \A i \in (j + 1)..Len(msgs) : ~IsSystem(msgs[i])
  IN MsgContent(msgs[k])

HasSystem(msgs) == \E k \in 1..Len(msgs) : IsSystem(msgs[k])

SystemInstructionOf(text) == [parts |-> <<[text |-> text]>>]

\* The number of turns the messages other than system messages stand for.
RECURSIVE TurnCount(_)
TurnCount(msgs) ==
  IF msgs = <<>> THEN 0
  ELSE (CASE IsSystem(Head(msgs)) -> 0
          [] HasToolCalls(Head(msgs)) /\ Head(msgs).role = "assistant" ->
               Len(Head(msgs).tool_calls)
          [] OTHER -> 1)
       + TurnCount(Tail(msgs))

\* C5 as stated: for every message list with a system message, the payload's
\* system instruction is the content of the last system message, wherever the
\* system messages sit, and system messages add no turn.
C5_LastSystemMessageIsTheInstruction ==
  \A c \in Callers :
    (RequestReturned(c) /\ HasSystem(messages[c]))
    => /\ "systemInstruction" \in DOMAIN ret[c]
       /\ ret[c].systemInstruction =
            SystemInstructionOf(LastSystemContent(messages[c]))
       /\ Len(ret[c].contents) = TurnCount(messages[c])

\* C5 amended: the payload's system instruction is the content of the last
\* system message when that content is a non-empty string; when it is empty
\* or null the payload has no system instruction at all, whatever earlier
\* system messages held.  System messages add no turn.
C5_LastNonEmptySystemMessageIsTheInstruction ==
  \A c \in Callers :
    (RequestReturned(c) /\ HasSystem(messages[c]))
    => /\ Truthy(LastSystemContent(messages[c]))
            => /\ "systemInstruction" \in DOMAIN ret[c]
               /\ ret[c].systemInstruction =
                    SystemInstructionOf(LastSystemContent(messages[c]))
       /\ ~Truthy(LastSystemContent(messages[c]))
            => "systemInstruction" \notin DOMAIN ret[c]
       /\ Len(ret[c].contents) = TurnCount(messages[c])

\* Two system messages with different texts, a user turn between them.
C5_Witness ==
  \E c \in Callers :
    /\ RequestReturned(c)
    /\ messages[c] = <<SystemMsg(JStr(sA)), UserMsg(JStr(sA)), SystemMsg(JStr(sB))>>
    /\ ret[c].systemInstruction = SystemInstructionOf(JStr(sB))

\* A user or assistant message with a text content and no tool calls.
IsTextMessage(m) ==
  /\ m.role \in {"user", "assistant"}
  /\ "content" \in DOMAIN m
  /\ IsStr(m.content)
  /\ ~HasToolCalls(m)

\* Reading a turn back: the vendor role as a canonical role, and the text.
ReadBack(turn) ==
  [role |-> IF turn.role = "model" THEN "assistant" ELSE turn.role,
   content |-> turn.parts[1].text]

\* C6: for a message list of user and assistant text messages only,
\* convert_request yields one turn per message, in order, each with a single
\* text part, and reading the turns back (user -> user, model -> assistant)
\* gives the roles and texts of the messages.
C6_TextTurnsRoundTrip ==
  \A c \in Callers :
    ( /\ InRequest(c)
      /\ pc[c] \in {"returned", "raised"}
      /\ op[c] = "convert_request"
      /\ \A k \in 1..Len(messages[c]) : IsTextMessage(messages[c][k]) )
    => /\ pc[c] = "returned"
       /\ Len(ret[c].contents) = Len(messages[c])
       /\ \A k \in 1..Len(messages[c]) :
            /\ Len(ret[c].contents[k].parts) = 1
            /\ DOMAIN ret[c].contents[k].parts[1] = {"text"}
            /\ ReadBack(ret[c].contents[k]) =
                 [role |-> messages[c][k].role, content |-> messages[c][k].content]

\* A conversation user, assistant, user with different texts went through.
C6_Witness ==
  \E c \in Callers :
    /\ RequestReturned(c)
    /\ messages[c] = <<UserMsg(JStr(sA)), AssistantMsg(JStr(sB)), UserMsg(JStr(sA))>>

\* The turns are the image the claim gives for message m.
IsImage(turns, m) ==
  CASE m.role = "system" -> turns = <<>>
    [] m.role = "user" ->
         turns = <<[role |-> "user", parts |-> <<[text |-> MsgContent(m)]>>]>>
    [] m.role = "assistant" /\ ~HasToolCalls(m) ->
         turns = <<[role |-> "model", parts |-> <<[text |-> MsgContent(m)]>>]>>
    [] m.role = "assistant" /\ HasToolCalls(m) ->
         /\ Len(turns) = Len(m.tool_calls)
         /\ \A k \in 1..Len(turns) :
              turns[k] =
                [role |-> "model",
                 parts |-> <<[function_call |->
                    [name |-> m.tool_calls[k].function.name,
                     args |-> JsonLoads(m.tool_calls[k].function.arguments).val]]>>]
    [] m.role = "tool" ->
         /\ Len(turns) = 1
         /\ turns[1].role = "user"
         /\ Len(turns[1].parts) = 1
         /\ DOMAIN turns[1].parts[1] = {"function_response"}
         /\ turns[1].parts[1].function_response.name = m.name

\* turns is the images of msgs, one after the other.
RECURSIVE IsImages(_, _)
IsImages(turns, msgs) ==
  IF msgs = <<>> THEN turns = <<>>
  ELSE LET n == TurnCount(<<Head(msgs)>>)
       IN /\ Len(turns) >= n
          /\ IsImage(SubSeq(turns, 1, n), Head(msgs))
          /\ IsImages(SubSeq(turns, n + 1, Len(turns)), Tail(msgs))

\* C7: the turn list is the concatenation, in message order, of the images
\* of the messages (user -> a user text turn; assistant -> a model text turn,
\* or one model function_call turn per tool call with the arguments parsed;
\* tool -> a user function_response turn with the tool's name; system ->
\* nothing).  It holds after every message of the loop, so a later message
\* leaves the turns of the earlier ones as they were, and of the list
\* returned.
C7_TurnsAreTheImagesInOrder ==
  \A c \in Callers :
    /\ (InRequest(c) /\ pc[c] # "idle")
         => IsImages(contents[c], SubSeq(messages[c], 1, idx[c]))
    /\ RequestReturned(c) => IsImages(ret[c].contents, messages[c])

\* A system message, an assistant message with two tool calls and a tool
\* message were converted.
C7_Witness ==
  \E c \in Callers :
    /\ RequestReturned(c)
    /\ messages[c] =
         <<SystemMsg(JStr(sA)),
           AssistantCalls(<<ToolCall(nameF, argsA1), ToolCall(nameG, argsNone)>>),
           ToolMsg(nameF, JStr(argsA1))>>
    /\ Len(ret[c].contents) = 3

\* The payloads with the first candidate of the one c converts, and any
\* later candidates; none when that payload has no candidate.
PayloadsLike(c) ==
  IF "candidates" \in DOMAIN response_data[c] /\ response_data[c].candidates # <<>>
  THEN {[candidates |-> <<response_data[c].candidates[1]>> \o rest] :
          rest \in SeqsUpTo(LaterCandidates, MaxCands - 1)}
  ELSE {}

\* C8: convert_response reads the first candidate only: every payload with
\* the same first candidate as the one converted, whatever its later
\* candidates, gives the same outcome (content, tool_calls, finish_reason, or
\* the same error).
C8_LaterCandidatesAreIgnored ==
  \A c \in Callers :
    (InResponse(c) /\ pc[c] \in {"returned", "raised"})
    => \A payload \in PayloadsLike(c) :
         ConvertResponse(hashseed, payload) = [ret |-> ret[c], exc |-> exc[c]]

\* A payload was converted whose second candidate is malformed and differs
\* from the first.
C8_Witness ==
  \E c \in Callers :
    /\ ResponseReturned(c)
    /\ Len(response_data[c].candidates) = 2
    /\ response_data[c].candidates[2] = NoContentCandidate
    /\ TheFinishReason(c) = "tool_calls"

IsPrefix(s, t) == Len(s) <= Len(t) /\ SubSeq(t, 1, Len(s)) = s

ChatOrder == <<"convert_request", "config", "post", "convert_response">>

InChat(c) == op[c] = "chat_completions_create"

\* C9: in one chat_completions_create call the steps run in the order
\* convert_request, configuration, one transport call, convert_response; the
\* transport is called at most once and not at all when the request
\* conversion fails; a call that ends after a transport failure or on a
\* malformed response ends with one error and no response object.
C9_OneTransportCallThenOneOutcome ==
  \A c \in Callers :
    InChat(c) =>
      /\ IsPrefix(trace[c], ChatOrder)
      /\ Len(sent[c]) <= 1
      /\ Len(sent[c]) = Cardinality({k \in 1..Len(trace[c]) : trace[c][k] = "post"})
      /\ RequestRaised(c) => sent[c] = <<>>
      /\ pc[c] = "raised" => (ret[c] = NoValue /\ exc[c] # NoExc)
      /\ pc[c] = "returned" => (ret[c] # NoValue /\ exc[c] = NoExc /\ trace[c] = ChatOrder)
      /\ (pc[c] \in {"returned", "raised"} /\ trace[c] = ChatOrder
          /\ MissingShape(response_data[c]) # NoExc)
           => (pc[c] = "raised" /\ ret[c] = NoValue /\ exc[c].type = "ValueError")
      /\ (pc[c] = "raised" /\ Last(trace[c]) = "post")
           => (exc[c].type = "ValueError" /\ Len(sent[c]) = 1)
      /\ pc[c] \in {"req_loop", "config", "post", "resp_start", "resp_loop",
                  "returned", "raised"}

\* A call ended on a malformed response after its one transport call.
C9_Witness ==
  \E c \in Callers :
    /\ InChat(c)
    /\ pc[c] = "raised"
    /\ trace[c] = ChatOrder
    /\ Len(sent[c]) = 1
    /\ response_data[c] = [candidates |-> <<>>]

\* The outcome of the call of c run on its own, on the arguments given.
Alone(c) ==
  IF op[c] = "convert_request" THEN ConvertRequest(given[c].messages)
  ELSE ConvertResponse(hashseed, given[c].response_data)

\* C10: the conversions keep no state between calls and leave their
\* arguments alone: however the calls of several callers follow one another
\* or interleave, a call ends with the outcome it has when run alone, and
\* the message list or payload it was given is at every step what it was
\* when the call was made.
C10_CallsDoNotInterfere ==
  \A c \in Callers :
    /\ op[c] = "convert_request" => messages[c] = given[c].messages
    /\ op[c] = "convert_response" => response_data[c] = given[c].response_data
    /\ (op[c] \in {"convert_request", "convert_response"}
        /\ pc[c] \in {"returned", "raised"})
         => [ret |-> ret[c], exc |-> exc[c]] = Alone(c)

\* One caller finished a conversion while another was inside its loop with
\* turns accumulated.
C10_Witness ==
  \E c, d \in Callers :
    /\ c # d
    /\ RequestReturned(c)
    /\ ret[c].contents # <<>>
    /\ pc[d] = "req_loop"
    /\ contents[d] # <<>>

\* The call of c has attached the configuration to its request.
Attached(c) == InChat(c) /\ Len(trace[c]) >= 2 /\ trace[c][2] = "config"
               /\ ~(pc[c] = "raised" /\ Len(trace[c]) = 2)

\* The converted request, before anything is attached to it.
Converted(c) == RequestData(contents[c], system_instruction[c])

\* The option of c under the name key, or the default.
OptionOf(c, key, default) ==
  IF key \in DOMAIN kwargs[c] THEN kwargs[c][key] ELSE default

\* The generationConfig the claim gives (0.7 and 0.95 in hundredths).
ExpectedConfig(c) ==
  [temperature |-> OptionOf(c, "temperature", 70),
   maxOutputTokens |-> OptionOf(c, "max_tokens", 8192),
   topP |-> OptionOf(c, "top_p", 95),
   topK |-> OptionOf(c, "top_k", 40)]

\* C11 as stated: the generationConfig attached to a request holds exactly
\* temperature, maxOutputTokens, topP and topK, each the caller's option
\* (temperature, max_tokens, top_p, top_k) or else 0.7, 8192, 0.95 and 40,
\* and any other option key changes nothing in the request payload: the
\* payload is the converted request with that generationConfig.
C11_OnlyTheFourOptionsReachThePayload ==
  \A c \in Callers :
    Attached(c) =>
      /\ DOMAIN request_data[c].generationConfig =
           {"temperature", "maxOutputTokens", "topP", "topK"}
      /\ request_data[c].generationConfig = ExpectedConfig(c)
      /\ DOMAIN request_data[c] = DOMAIN Converted(c) \cup {"generationConfig"}
      /\ \A k \in DOMAIN Converted(c) : request_data[c][k] = Converted(c)[k]

\* C11 amended: the generationConfig is as stated, and any option key other
\* than temperature, max_tokens, top_p, top_k and tools changes nothing in
\* the request payload: apart from a tools field, present exactly when the
\* tools option is, the payload is the converted request with that
\* generationConfig.
C11_OnlyTheFourOptionsAndToolsReachThePayload ==
  \A c \in Callers :
    Attached(c) =>
      /\ DOMAIN request_data[c].generationConfig =
           {"temperature", "maxOutputTokens", "topP", "topK"}
      /\ request_data[c].generationConfig = ExpectedConfig(c)
      /\ DOMAIN request_data[c] \ {"tools"} =
           DOMAIN Converted(c) \cup {"generationConfig"}
      /\ \A k \in DOMAIN Converted(c) : request_data[c][k] = Converted(c)[k]
      /\ "tools" \in DOMAIN request_data[c] <=> "tools" \in DOMAIN kwargs[c]

\* A request was posted with top_p, top_k and max_turns given, the other two
\* options defaulted.
C11_Witness ==
  \E c \in Callers :
    /\ Attached(c)
    /\ sent[c] # <<>>
    /\ DOMAIN kwargs[c] = {"top_p", "top_k", "max_turns"}
    /\ sent[c][1].generationConfig =
         [temperature |-> 70, maxOutputTokens |-> 8192, topP |-> 50, topK |-> 10]

\* The declaration the claim gives for a tool.
ExpectedDeclaration(tool) ==
  [name |-> tool.function.name,
   description |-> IF "description" \in DOMAIN tool.function
                   THEN tool.function.description ELSE <<>>,
   parameters |-> tool.function.parameters]

FunctionCallParts(c) == SelectSeq(FirstParts(c), IsFunctionCallPart)

\* The tool calls of the returned message.
TheToolCalls(c) == TheMessage(c).tool_calls

\* C13: the id convert_response gives a tool call depends on the function
\* name alone: two function-call parts of one response with the same name get
\* the same id whatever their args or position, so the ids are pairwise
\* distinct only when the names are; tool_calls keeps the part order, and each
\* entry's arguments is the JSON serialization of that part's args.
C13_ToolCallIdDependsOnNameAlone ==
  \A c \in Callers :
    ResponseReturned(c) =>
      LET fcs == FunctionCallParts(c)
          tcs == TheToolCalls(c)
      IN /\ Len(tcs) = Len(fcs)
         /\ \A k \in 1..Len(fcs) :
              /\ tcs[k].function.name = fcs[k].function_call.name
              /\ tcs[k].function.arguments = JsonDumps(fcs[k].function_call.args)
              /\ tcs[k].id = CallId(hashseed, fcs[k].function_call.name)
         /\ \A j, k \in 1..Len(fcs) :
              fcs[j].function_call.name = fcs[k].function_call.name
                => tcs[j].id = tcs[k].id
         /\ (\A j, k \in 1..Len(tcs) : j # k => tcs[j].id # tcs[k].id)
              => (\A j, k \in 1..Len(fcs) :
                    j # k => fcs[j].function_call.name # fcs[k].function_call.name)

\* A response with two calls of the same function and different args was
\* converted: the two tool calls differ in arguments and share their id.
C13_Witness ==
  \E c \in Callers :
    /\ ResponseReturned(c)
    /\ Len(FunctionCallParts(c)) = 2
    /\ FunctionCallParts(c)[1].function_call.name = nameF
    /\ FunctionCallParts(c)[2].function_call.name = nameF
    /\ TheToolCalls(c)[1].function.arguments = argsNone
    /\ TheToolCalls(c)[2].function.arguments = argsA1
    /\ TheToolCalls(c)[1].id = TheToolCalls(c)[2].id

\* A convert_request call made with the tool calls of a converted response.
ToolTurnCall(c) == op[c] = "convert_request" /\ given[c].response_data # <<>>

\* The model turn that carries a function-call part of the vendor response.
SameCallTurn(part) ==
  [role |-> "model",
   parts |-> <<[function_call |-> [name |-> part.function_call.name,
                                   args |-> part.function_call.args]]>>]

\* C14: when the tool calls convert_response produced from a response are
\* placed in an assistant message and passed to convert_request, the call
\* returns, and its model turns carry, in the same order, function_call parts
\* with the name and the args of the function-call parts of the vendor
\* response: the parse undoes the serialization of args.
C14_ToolCallsRoundTrip ==
  \A c \in Callers :
    ToolTurnCall(c) =>
      /\ pc[c] # "raised"
      /\ pc[c] = "returned" =>
           LET fcs == SelectSeq(given[c].response_data.candidates[1].content.parts,
                                IsFunctionCallPart)
           IN /\ DOMAIN ret[c] = {"contents"}
              /\ ret[c].contents = [k \in 1..Len(fcs) |-> SameCallTurn(fcs[k])]

\* The round trip of a response with two calls, one with nested args, ended.
C14_Witness ==
  \E c \in Callers :
    /\ ToolTurnCall(c)
    /\ pc[c] = "returned"
    /\ Len(ret[c].contents) = 2
    /\ ret[c].contents[1].parts[1].function_call = [name |-> nameF, args |-> objA1]
    /\ ret[c].contents[2].parts[1].function_call = [name |-> nameG, args |-> objNested]
    /\ given[c].messages[1].tool_calls[2].function.arguments =
         <<"{", "\"", "a", "\"", ":", " ", "\"", "B", "\"", ",", " ",
           "\"", "b", "\"", ":", " ", "{", "\"", "c", "\"", ":", " ",
           "t", "r", "u", "e", ",", " ", "\"", "d", "\"", ":", " ",
           "n", "u", "l", "l", "}", "}">>
====
